---- MODULE Spec2Model ----
(***************************************************************************)
(* Model of Erc20EventsIndexer                                             *)
(* (safe_transaction_service/history/indexers/erc20_events_indexer.py):    *)
(* the self-tuning block window of find_relevant_elements, the             *)
(* persistence pipeline of process_elements and the scan iteration that    *)
(* drives both and advances erc20_block_number.                            *)
(***************************************************************************)
EXTENDS Integers, Sequences, FiniteSets, TLC

VARIABLES
    block_process_limit,  \* self.block_process_limit, the window size
    last_find,            \* observation of the last find_relevant_elements call
    find_calls,           \* number of find_relevant_elements calls so far
    ethereum_txs,         \* EthereumTx table: rows in insertion order
    ethereum_events,      \* EthereumEvent table: rows in insertion order
    last_process,         \* observation of the last process_elements call
    erc20_block_number,   \* SafeContract.erc20_block_number per address
    last_scan,            \* observation of the last scan iteration
    instance,             \* Erc20EventsIndexerProvider.instance (0: no attribute)
    indexer_limit,        \* block_process_limit of every indexer constructed
    thread_pc,            \* where each thread is in Erc20EventsIndexerProvider()
    thread_indexer,       \* the indexer each thread holds (0: none)
    fresh,                \* the threads whose call began after the last del_singleton
    handed_out,           \* indexers returned by such calls since that del_singleton
    provider_built,       \* indexers constructed by such calls since then
    worker_calls,         \* number of find_relevant_elements calls by threads
    last_worker_find      \* observation of the last such call

windowVars == <<block_process_limit, last_find, find_calls>>
storeVars == <<ethereum_txs, ethereum_events, last_process>>
scanVars == <<erc20_block_number, last_scan>>
providerVars == <<instance, indexer_limit, thread_pc, thread_indexer, fresh,
                  handed_out, provider_built, worker_calls, last_worker_find>>
vars == <<block_process_limit, last_find, find_calls, ethereum_txs, ethereum_events,
          last_process, erc20_block_number, last_scan, instance, indexer_limit,
          thread_pc, thread_indexer, fresh, handed_out, provider_built,
          worker_calls, last_worker_find>>

----------------------------------------------------------------------------
(* Bounds of the model *)

\* find_relevant_elements is called directly at most MaxCalls times
MaxCalls == 3
\* at most MaxScans scan iterations reach the fetch
MaxScans == 2
\* a batch of raw log entries has at most MaxBatch entries
MaxBatch == 2
\* at most MaxIndexers indexers are constructed
MaxIndexers == 3
\* threads call find_relevant_elements on their indexers at most
\* MaxWorkerCalls times
MaxWorkerCalls == 2

----------------------------------------------------------------------------
(* Program constants *)

\* block_process_limit: int = 10000, kept as initial_block_process_limit
initial_block_process_limit == 10000
\* updated_blocks_behind: int = 300
updated_blocks_behind == 300
\* if time_diff > 30
HalveAbove == 30
\* if time_diff > 10
DecreaseAbove == 10
\* elif time_diff < 2
DoubleBelow == 2
\* elif time_diff < 5
IncreaseBelow == 5
\* self.block_process_limit -= 10000
DecreaseStep == 10000
\* self.block_process_limit += 10000
IncreaseStep == 10000
\* the configured floor of the window size (spec: minWindowSize); the source
\* keeps no such field, the smallest window the spec allows is one block
min_window_size == 1

Addresses == {"A1", "A2", "A3"}
TxHashes == {"T1", "T2"}
LogIndexes == {0, 1}

\* an `except Exception:` that catches every error of the fetch
TransientErrorsAll == {"HTTPError", "ConnectionError", "OtherError"}

\* outcomes of ethereum_client.erc20.get_total_transfer_history
TransientErrors == {"HTTPError", "ConnectionError"}
FetchOutcomes == {"ok", "HTTPError", "ConnectionError", "OtherError"}

\* elapsed seconds of a fetch (end - start): both sides of every threshold
ElapsedTimes == {1, 2, 4, 5, 10, 11, 30, 31, 32}

\* from_block_number of a direct call
FromBlocks == {1}

----------------------------------------------------------------------------
(* find_relevant_elements: the window tuning *)

\* a range shorter than the window taken for a full one
IsFullWindowAtMost(limit, from_block_number, to_block_number) ==
    (to_block_number - from_block_number) <= limit

\* lines 63-66: start is set only when the range is a full window
IsFullWindow(limit, from_block_number, to_block_number) ==
    (to_block_number - from_block_number) = limit

\* lines 73-74: a transient error sets the limit back to the default
AfterFetch(limit, fetch) ==
    IF fetch \in TransientErrors THEN initial_block_process_limit ELSE limit

\* The tuning works on the limit and on the messages it logs (logger.info at
\* lines 81, 84, 87 and 90), st = [limit, log]

\* lines 79-81: the first `if`
AfterHalve(st, time_diff) ==
    IF time_diff > HalveAbove
    THEN [limit |-> st.limit \div 2, log |-> Append(st.log, "halved")]
    ELSE st

\* the two fast bands with their upper ends included
AfterBandsInclusive(st, time_diff) ==
    IF time_diff > DecreaseAbove
    THEN [limit |-> st.limit - DecreaseStep,
          log |-> Append(st.log, "decreased")]
    ELSE IF time_diff <= DoubleBelow
    THEN [limit |-> st.limit * 2, log |-> Append(st.log, "duplicated")]
    ELSE IF time_diff <= IncreaseBelow
    THEN [limit |-> st.limit + IncreaseStep,
          log |-> Append(st.log, "increased")]
    ELSE st

\* lines 82-90: the second `if` with its two `elif`s
AfterBands(st, time_diff) ==
    IF time_diff > DecreaseAbove
    THEN [limit |-> st.limit - DecreaseStep,
          log |-> Append(st.log, "decreased")]
    ELSE IF time_diff < DoubleBelow
    THEN [limit |-> st.limit * 2, log |-> Append(st.log, "duplicated")]
    ELSE IF time_diff < IncreaseBelow
    THEN [limit |-> st.limit + IncreaseStep,
          log |-> Append(st.log, "increased")]
    ELSE st

\* lines 76-90: `if start:` runs the two statements one after the other
Tune(limit, started, time_diff) ==
    IF started
    THEN AfterBands(AfterHalve([limit |-> limit, log |-> <<>>], time_diff),
                    time_diff)
    ELSE [limit |-> limit, log |-> <<>>]

\* lines 69-97: how the call ends.  An error that line 73 does not catch
\* leaves at line 70; after a caught error erc20_transfer_events is unbound
\* and line 93 raises UnboundLocalError.
FindOutcome(fetch) ==
    IF fetch = "ok" THEN "returned"
    ELSE IF fetch \in TransientErrors THEN "UnboundLocalError"
    ELSE "OtherError"

\* lines 61-97: block_process_limit at the end of the call, the adjustments
\* logged and the way the call ends
FindResult(limit, from_block_number, to_block_number, fetch, time_diff) ==
    LET tuned == Tune(AfterFetch(limit, fetch),
                      IsFullWindow(limit, from_block_number, to_block_number),
                      time_diff)
    IN IF fetch \notin (TransientErrors \cup {"ok"})
       THEN [limit |-> limit, log |-> <<>>, outcome |-> FindOutcome(fetch)]
       ELSE [limit |-> tuned.limit, log |-> tuned.log,
             outcome |-> FindOutcome(fetch)]

NoFind ==
    [called |-> FALSE, limit_before |-> initial_block_process_limit,
     from_block_number |-> 0, to_block_number |-> 0, fetch |-> "ok",
     time_diff |-> 0, log |-> <<>>, outcome |-> "returned"]

\* lines 49-97 as an action on the indexer's fields
find_relevant_elements(from_block_number, to_block_number, fetch, time_diff) ==
    LET r == FindResult(block_process_limit, from_block_number,
                        to_block_number, fetch, time_diff)
    IN /\ block_process_limit' = r.limit
       /\ find_calls' = find_calls + 1
       /\ last_find' =
              [called |-> TRUE,
               limit_before |-> block_process_limit,
               from_block_number |-> from_block_number,
               to_block_number |-> to_block_number,
               fetch |-> fetch,
               time_diff |-> time_diff,
               log |-> r.log,
               outcome |-> r.outcome]

\* a direct call over a full window
FindFullWindow ==
    \E from_block_number \in FromBlocks, fetch \in FetchOutcomes,
       time_diff \in ElapsedTimes :
        /\ find_calls < MaxCalls
        /\ find_relevant_elements(from_block_number,
                                  from_block_number + block_process_limit,
                                  fetch, time_diff)
        /\ UNCHANGED <<storeVars, scanVars, providerVars>>

\* a direct call over a range shorter or longer than the window
FindPartialWindow ==
    \E from_block_number \in FromBlocks :
    \E to_block_number \in {from_block_number + block_process_limit - 1,
                            from_block_number + block_process_limit + 1},
       fetch \in FetchOutcomes, time_diff \in ElapsedTimes :
        /\ find_calls < MaxCalls
        /\ find_relevant_elements(from_block_number, to_block_number,
                                  fetch, time_diff)
        /\ UNCHANGED <<storeVars, scanVars, providerVars>>

----------------------------------------------------------------------------
(* process_elements: the persistence pipeline *)

\* a raw log entry as find_relevant_elements returns it
\* (T1 carries two logs, T2 one)
Entries ==
    {e \in [transactionHash : TxHashes, logIndex : LogIndexes] :
        e.transactionHash = "T1" \/ e.logIndex = 0}

Batches == UNION {[1..n -> Entries] : n \in 0..MaxBatch}

\* a raw entry that cannot be normalized: it carries no logIndex
MalformedEntries == {[transactionHash |-> "T2"]}

\* line 107: from_decoded_event reads the entry's keys; a missing key raises
WellFormed(event) == "logIndex" \in DOMAIN event

\* the batches that hold a malformed entry
MalformedBatches ==
    {b \in UNION {[1..n -> Entries \cup MalformedEntries] : n \in 1..MaxBatch} :
        \E i \in 1..Len(b) : ~WellFormed(b[i])}

Range(s) == {s[i] : i \in 1..Len(s)}

RECURSIVE OrderedUnique(_)
\* line 105: OrderedDict.fromkeys([...]).keys(), the distinct values in order
\* of first appearance
OrderedUnique(s) ==
    IF s = <<>> THEN <<>>
    ELSE LET front == OrderedUnique(SubSeq(s, 1, Len(s) - 1))
             x == s[Len(s)]
         IN IF x \in Range(front) THEN front ELSE Append(front, x)

\* the transaction hashes of the batch without the OrderedDict
TxHashesOfAll(events) ==
    [i \in 1..Len(events) |-> events[i].transactionHash]

\* line 105: the transaction hashes of the batch
TxHashesOf(events) ==
    OrderedUnique([i \in 1..Len(events) |-> events[i].transactionHash])

RECURSIVE create_or_update_from_tx_hashes(_, _)
\* line 106: EthereumTx.objects.create_or_update_from_tx_hashes: a hash that
\* has no row gets one, a hash that has a row keeps it
create_or_update_from_tx_hashes(table, tx_hashes) ==
    IF tx_hashes = <<>> THEN table
    ELSE LET h == Head(tx_hashes)
         IN create_or_update_from_tx_hashes(
                IF h \in Range(table) THEN table ELSE Append(table, h),
                Tail(tx_hashes))

\* line 107: EthereumEvent.objects.from_decoded_event builds the model
\* instance of one raw entry
from_decoded_event(event) ==
    [ethereum_tx_id |-> event.transactionHash, log_index |-> event.logIndex]

\* the unique key of an EthereumEvent row
EventKey(obj) == <<obj.ethereum_tx_id, obj.log_index>>

EventKeys(table) == {EventKey(table[i]) : i \in 1..Len(table)}

\* line 107: the list comprehension over the batch
EventsOf(events) == [i \in 1..Len(events) |-> from_decoded_event(events[i])]

\* bulk_create called without ignore_conflicts
IgnoreConflictsOff == FALSE

\* line 108: the keyword argument ignore_conflicts=True
IgnoreConflicts == TRUE

RECURSIVE InsertIgnoringConflicts(_, _)
\* INSERT ... ON CONFLICT DO NOTHING: a row whose key is present is skipped
InsertIgnoringConflicts(table, objs) ==
    IF objs = <<>> THEN table
    ELSE LET o == Head(objs)
         IN InsertIgnoringConflicts(
                IF EventKey(o) \in EventKeys(table) THEN table
                ELSE Append(table, o),
                Tail(objs))

\* whether a plain INSERT of objs violates the unique key
Conflicts(table, objs) ==
    \/ \E i \in 1..Len(objs) : EventKey(objs[i]) \in EventKeys(table)
    \/ \E i, j \in 1..Len(objs) : i < j /\ EventKey(objs[i]) = EventKey(objs[j])

\* line 108: the rows of the table after bulk_create, and whether it raised
\* IntegrityError (only without ignore_conflicts; the statement then inserts
\* nothing)
BulkCreate(table, objs, ignore_conflicts) ==
    IF ignore_conflicts
    THEN [rows |-> InsertIgnoringConflicts(table, objs), raised |-> FALSE]
    ELSE IF Conflicts(table, objs)
    THEN [rows |-> table, raised |-> TRUE]
    ELSE [rows |-> table \o objs, raised |-> FALSE]

\* a bulk_create that returned only the objects it inserted
BulkCreateReturnCreated(table, objs) ==
    SelectSeq(objs, LAMBDA o : EventKey(o) \notin EventKeys(table))

\* line 108: bulk_create returns the list of objects it was given
BulkCreateReturn(table, objs) == objs

\* where the durable store fails during one call
PersistFailures == {"none", "upsert", "insert"}

\* a process_elements that catches the store's errors and returns a list
ProcessResultSwallowing(txs, evs, events, fail) ==
    LET upserted == create_or_update_from_tx_hashes(txs, TxHashesOf(events))
        objs == EventsOf(events)
        created == BulkCreate(evs, objs, IgnoreConflicts)
    IN IF fail = "upsert"
       THEN [txs |-> txs, evs |-> evs, outcome |-> "returned",
             returned |-> <<>>]
       ELSE IF fail = "insert" \/ created.raised
       THEN [txs |-> upserted, evs |-> evs, outcome |-> "returned",
             returned |-> <<>>]
       ELSE [txs |-> upserted, evs |-> created.rows, outcome |-> "returned",
             returned |-> BulkCreateReturn(evs, objs)]

\* a process_elements that inserts the events before it upserts the
\* transactions
ProcessResultEventsFirst(txs, evs, events, fail) ==
    LET upserted == create_or_update_from_tx_hashes(txs, TxHashesOf(events))
        objs == EventsOf(events)
        created == BulkCreate(evs, objs, IgnoreConflicts)
    IN IF fail = "insert" \/ created.raised
       THEN [txs |-> txs, evs |-> evs, outcome |-> "raised",
             returned |-> <<>>]
       ELSE IF fail = "upsert"
       THEN [txs |-> txs, evs |-> created.rows, outcome |-> "raised",
             returned |-> <<>>]
       ELSE [txs |-> upserted, evs |-> created.rows, outcome |-> "returned",
             returned |-> BulkCreateReturn(evs, objs)]

\* lines 105-108: the effect of one call on the two tables, how it ends and
\* what it returns.  Nothing catches an error of line 106 or line 108.
ProcessResult(txs, evs, events, fail) ==
    LET tx_hashes == TxHashesOf(events)
        upserted == create_or_update_from_tx_hashes(txs, tx_hashes)
        objs == EventsOf(events)
        created == BulkCreate(evs, objs, IgnoreConflicts)
    IN IF fail = "upsert"
       THEN [txs |-> txs, evs |-> evs, outcome |-> "raised",
             returned |-> <<>>]
       \* line 107: the comprehension stops at the first entry that raises
       ELSE IF \E i \in 1..Len(events) : ~WellFormed(events[i])
       THEN [txs |-> upserted, evs |-> evs, outcome |-> "raised",
             returned |-> <<>>]
       ELSE IF fail = "insert" \/ created.raised
       THEN [txs |-> upserted, evs |-> evs, outcome |-> "raised",
             returned |-> <<>>]
       ELSE [txs |-> upserted, evs |-> created.rows, outcome |-> "returned",
             returned |-> BulkCreateReturn(evs, objs)]

NoProcess ==
    [called |-> FALSE, batch |-> <<>>, fail |-> "none", outcome |-> "returned",
     returned |-> <<>>, repeat |-> FALSE, changed |-> FALSE,
     stored_before |-> {}, tx_hashes |-> <<>>]

\* lines 99-108 as an action on the durable store
process_elements(events, fail) ==
    LET r == ProcessResult(ethereum_txs, ethereum_events, events, fail)
    IN /\ ethereum_txs' = r.txs
       /\ ethereum_events' = r.evs
       /\ last_process' =
              [called |-> TRUE,
               batch |-> events,
               fail |-> fail,
               outcome |-> r.outcome,
               returned |-> r.returned,
               \* the call before this one returned and had the same batch
               repeat |-> /\ last_process.called
                          /\ last_process.outcome = "returned"
                          /\ last_process.batch = events,
               changed |-> r.txs # ethereum_txs \/ r.evs # ethereum_events,
               stored_before |->
                   {EventKey(from_decoded_event(events[i])) :
                        i \in {j \in 1..Len(events) : WellFormed(events[j])}}
                       \cap EventKeys(ethereum_events),
               \* the argument of create_or_update_from_tx_hashes
               tx_hashes |-> TxHashesOf(events)]

\* a direct call with any batch
ProcessElements ==
    \E events \in Batches, fail \in PersistFailures :
        /\ process_elements(events, fail)
        /\ UNCHANGED <<windowVars, scanVars, providerVars>>

\* a direct call with a batch that holds a malformed entry
ProcessMalformed ==
    \E events \in MalformedBatches, fail \in PersistFailures :
        /\ process_elements(events, fail)
        /\ UNCHANGED <<windowVars, scanVars, providerVars>>

----------------------------------------------------------------------------
(* The scan iteration that drives both and advances erc20_block_number *)

\* current block numbers of the chain seen by an iteration
ChainHeads == {200, 5300, 30300}

\* erc20_block_number of the watched addresses at the start: two addresses
\* share a mark, the third is behind
InitialBlock == [a \in Addresses |-> IF a = "A3" THEN 0 ELSE 100]

\* elapsed seconds of the fetches of scan iterations
ScanElapsedTimes == {1, 31}

\* batches fetched by scan iterations
ScanBatches == {<<>>, <<[transactionHash |-> "T1", logIndex |-> 0]>>}

Min(a, b) == IF a <= b THEN a ELSE b

\* the addresses scanned together: those sharing one erc20_block_number
AddressBatches ==
    {batch \in SUBSET Addresses :
        /\ batch # {}
        /\ \A a, b \in batch : erc20_block_number[a] = erc20_block_number[b]
        /\ \A a \in batch, b \in Addresses \ batch :
               erc20_block_number[a] # erc20_block_number[b]}

NoScan ==
    [called |-> FALSE, addresses |-> {}, from_block_number |-> 0,
     to_block_number |-> 0, fail |-> "none", outcome |-> "nothing",
     before |-> InitialBlock]

ScanObservation(addresses, from_block_number, to_block_number, fail, outcome) ==
    [called |-> TRUE, addresses |-> addresses,
     from_block_number |-> from_block_number,
     to_block_number |-> to_block_number, fail |-> fail, outcome |-> outcome,
     before |-> erc20_block_number]

\* the marks after process_elements ended with `outcome`: all addresses of the
\* batch advance to to_block_number once it has returned
Advance(marks, addresses, to_block_number, outcome) ==
    IF outcome = "returned"
    THEN [a \in Addresses |->
             IF a \in addresses THEN to_block_number ELSE marks[a]]
    ELSE marks

\* one iteration for one batch of addresses: window, fetch, persist, advance
ScanIteration ==
    \E addresses \in AddressBatches, head \in ChainHeads,
       fetch \in FetchOutcomes, time_diff \in ScanElapsedTimes,
       events \in ScanBatches, fail \in PersistFailures :
        LET mark == erc20_block_number[CHOOSE a \in addresses : TRUE]
            from_block_number == mark + 1
            to_block_number == Min(from_block_number + block_process_limit,
                                   head - updated_blocks_behind)
            persisted == ProcessResult(ethereum_txs, ethereum_events, events,
                                       fail)
        IN IF to_block_number < from_block_number
           THEN /\ last_scan' = ScanObservation(addresses, from_block_number,
                                                to_block_number, "none",
                                                "nothing")
                /\ UNCHANGED <<windowVars, storeVars, erc20_block_number,
                               providerVars>>
           ELSE /\ find_calls < MaxScans
                /\ UNCHANGED providerVars
                /\ find_relevant_elements(from_block_number, to_block_number,
                                          fetch, time_diff)
                /\ IF FindOutcome(fetch) # "returned"
                   THEN /\ last_scan' =
                               ScanObservation(addresses, from_block_number,
                                               to_block_number, "none",
                                               "find_raised")
                        /\ UNCHANGED <<storeVars, erc20_block_number>>
                   ELSE /\ process_elements(events, fail)
                        /\ erc20_block_number' =
                               Advance(erc20_block_number, addresses,
                                       to_block_number, persisted.outcome)
                        /\ last_scan' =
                               ScanObservation(
                                   addresses, from_block_number,
                                   to_block_number, fail,
                                   IF persisted.outcome = "returned"
                                   THEN "advanced" ELSE "process_raised")

----------------------------------------------------------------------------
(* Erc20EventsIndexerProvider and the threads that use indexers *)

Threads == {"W1", "W2"}

\* elapsed seconds of the fetches of the threads' calls
WorkerElapsedTimes == {1, 7, 31}

\* lines 34-39: a new indexer starts with the default block_process_limit
NewIndexer(limits) == Append(limits, initial_block_process_limit)

\* line 18: `if not hasattr(cls, 'instance')`
ProviderCheck(t) ==
    /\ thread_pc[t] = "idle"
    /\ thread_pc' = [thread_pc EXCEPT ![t] =
                        IF instance = 0 THEN "construct" ELSE "return"]
    /\ fresh' = fresh \cup {t}
    /\ UNCHANGED <<instance, indexer_limit, thread_indexer, handed_out,
                   provider_built, worker_calls, last_worker_find>>
    /\ UNCHANGED <<windowVars, storeVars, scanVars>>

\* lines 19-20: cls.instance = Erc20EventsIndexer(...)
ProviderConstruct(t) ==
    /\ thread_pc[t] = "construct"
    /\ Len(indexer_limit) < MaxIndexers
    /\ indexer_limit' = NewIndexer(indexer_limit)
    /\ instance' = Len(indexer_limit) + 1
    /\ thread_pc' = [thread_pc EXCEPT ![t] = "return"]
    /\ provider_built' = IF t \in fresh
                         THEN provider_built \cup {Len(indexer_limit) + 1}
                         ELSE provider_built
    /\ UNCHANGED <<thread_indexer, fresh, handed_out, worker_calls,
                   last_worker_find>>
    /\ UNCHANGED <<windowVars, storeVars, scanVars>>

\* line 21: return cls.instance (AttributeError when the attribute was
\* deleted since line 18: the thread keeps what it held)
ProviderReturn(t) ==
    /\ thread_pc[t] = "return"
    /\ thread_pc' = [thread_pc EXCEPT ![t] = "idle"]
    /\ thread_indexer' = [thread_indexer EXCEPT ![t] =
                             IF instance = 0 THEN @ ELSE instance]
    /\ handed_out' = IF instance # 0 /\ t \in fresh
                     THEN handed_out \cup {instance}
                     ELSE handed_out
    /\ fresh' = fresh \ {t}
    /\ UNCHANGED <<instance, indexer_limit, provider_built, worker_calls,
                   last_worker_find>>
    /\ UNCHANGED <<windowVars, storeVars, scanVars>>

\* lines 23-26: del_singleton
del_singleton ==
    /\ instance' = 0
    /\ fresh' = {}
    /\ handed_out' = {}
    /\ provider_built' = {}
    /\ UNCHANGED <<indexer_limit, thread_pc, thread_indexer, worker_calls,
                   last_worker_find>>
    /\ UNCHANGED <<windowVars, storeVars, scanVars>>

\* lines 34-39: a thread constructs an indexer of its own
ConstructOwn(t) ==
    /\ thread_pc[t] = "idle"
    /\ Len(indexer_limit) < MaxIndexers
    /\ indexer_limit' = NewIndexer(indexer_limit)
    /\ thread_indexer' = [thread_indexer EXCEPT ![t] = Len(indexer_limit) + 1]
    /\ UNCHANGED <<instance, thread_pc, fresh, handed_out, provider_built,
                   worker_calls, last_worker_find>>
    /\ UNCHANGED <<windowVars, storeVars, scanVars>>

\* the window size each thread that holds an indexer sees
SeenLimits(limits) ==
    [w \in {t \in Threads : thread_indexer[t] # 0} |->
        limits[thread_indexer[w]]]

NoWorkerFind ==
    [called |-> FALSE, worker |-> "W1", seen_before |-> <<>>,
     seen_after |-> <<>>]

\* lines 49-97 called by a thread on the indexer it holds
WorkerFind(t) ==
    \E full \in BOOLEAN, fetch \in FetchOutcomes,
       time_diff \in WorkerElapsedTimes :
        LET limit == indexer_limit[thread_indexer[t]]
            r == FindResult(limit, 1, IF full THEN 1 + limit ELSE limit,
                            fetch, time_diff)
        IN /\ thread_pc[t] = "idle"
           /\ thread_indexer[t] # 0
           /\ worker_calls < MaxWorkerCalls
           /\ worker_calls' = worker_calls + 1
           /\ indexer_limit' =
                  [indexer_limit EXCEPT ![thread_indexer[t]] = r.limit]
           /\ last_worker_find' =
                  [called |-> TRUE, worker |-> t,
                   seen_before |-> SeenLimits(indexer_limit),
                   seen_after |-> SeenLimits(indexer_limit')]
           /\ UNCHANGED <<instance, thread_pc, thread_indexer, fresh,
                          handed_out, provider_built>>
           /\ UNCHANGED <<windowVars, storeVars, scanVars>>

NextProvider ==
    \/ \E t \in Threads : ProviderCheck(t)
    \/ \E t \in Threads : ProviderConstruct(t)
    \/ \E t \in Threads : ProviderReturn(t)
    \/ del_singleton
    \/ \E t \in Threads : ConstructOwn(t)
    \/ \E t \in Threads : WorkerFind(t)

----------------------------------------------------------------------------
(* Specifications *)

Init ==
    /\ block_process_limit = initial_block_process_limit
    /\ last_find = NoFind
    /\ find_calls = 0
    /\ ethereum_txs = <<>>
    /\ ethereum_events = <<>>
    /\ last_process = NoProcess
    /\ erc20_block_number = InitialBlock
    /\ last_scan = NoScan
    /\ instance = 0
    /\ indexer_limit = <<>>
    /\ thread_pc = [t \in Threads |-> "idle"]
    /\ thread_indexer = [t \in Threads |-> 0]
    /\ fresh = {}
    /\ handed_out = {}
    /\ provider_built = {}
    /\ worker_calls = 0
    /\ last_worker_find = NoWorkerFind

\* calls of find_relevant_elements alone
NextWindow == FindFullWindow \/ FindPartialWindow
SpecWindow == Init /\ [][NextWindow]_vars

\* calls of process_elements alone
NextPersist == ProcessElements
SpecPersist == Init /\ [][NextPersist]_vars

\* calls of process_elements with well-formed and malformed batches
NextMalformed == ProcessElements \/ ProcessMalformed
SpecMalformed == Init /\ [][NextMalformed]_vars

\* threads obtaining indexers and tuning them
SpecProvider == Init /\ [][NextProvider]_vars

\* scan iterations
NextScan == ScanIteration
SpecScan == Init /\ [][NextScan]_vars

\* every operation; the three specifications above explore its parts, whose
\* variables are disjoint
Next ==
    \/ FindFullWindow
    \/ FindPartialWindow
    \/ ProcessElements
    \/ ProcessMalformed
    \/ ScanIteration
    \/ NextProvider
Spec == Init /\ [][Next]_vars

----------------------------------------------------------------------------
(* Properties *)

Max(a, b) == IF a >= b THEN a ELSE b

\* the last find_relevant_elements call had a full window
LastFull ==
    last_find.to_block_number - last_find.from_block_number
        = last_find.limit_before

\* the last call's fetch succeeded over a full window
LastTuned == last_find.called /\ last_find.fetch = "ok" /\ LastFull

\* C1: the window size never falls below the configured minimum window
\* size; in particular it is never zero or negative
C1_WindowFloor == block_process_limit >= min_window_size

\* C2: after a call whose fetch failed with HTTPError or ConnectionError the
\* window size equals initial_block_process_limit
C2_ErrorReset ==
    (last_find.called /\ last_find.fetch \in TransientErrors)
        => block_process_limit = initial_block_process_limit

\* C3: a call whose fetch failed with HTTPError or ConnectionError completes
\* without raising
C3_TransientErrorReturns ==
    (last_find.called /\ last_find.fetch \in TransientErrors)
        => last_find.outcome = "returned"

\* C6: a successful fetch over a full window applies at most one adjustment,
\* and with more than 30 s elapsed exactly one: the size is halved
C6_FirstMatchWins ==
    LastTuned =>
        /\ Len(last_find.log) <= 1
        /\ last_find.time_diff > 30 =>
               /\ last_find.log = <<"halved">>
               /\ block_process_limit = last_find.limit_before \div 2

\* C7: a successful fetch over a full window with 5 s < t <= 30 s makes the
\* size the previous size minus 10000, floored at the minimum window size
C7_MiddleBand ==
    (LastTuned /\ last_find.time_diff > 5 /\ last_find.time_diff <= 30)
        => block_process_limit =
               Max(last_find.limit_before - 10000, min_window_size)

\* C8: a successful fetch over a full window with t < 2 s doubles the size,
\* and with 2 s <= t < 5 s adds 10000 to it
C8_FastBands ==
    LastTuned =>
        /\ last_find.time_diff < 2 =>
               block_process_limit = 2 * last_find.limit_before
        /\ (last_find.time_diff >= 2 /\ last_find.time_diff < 5) =>
               block_process_limit = last_find.limit_before + 10000

\* a doubling to 20000 was followed by a full window answered in 2 s to 5 s
C8_Witness ==
    /\ LastTuned
    /\ last_find.time_diff \in 2..4
    /\ last_find.limit_before = 20000
    /\ block_process_limit = 30000

\* C9: a call whose fetch succeeds over a range that is not a full window
\* leaves the window size unchanged, whatever time elapsed
C9_PartialWindowUnchanged ==
    (last_find.called /\ last_find.fetch = "ok" /\ ~LastFull)
        => block_process_limit = last_find.limit_before

\* a partial window answered in under 2 s, after the size had been tuned
C9_Witness ==
    /\ last_find.called
    /\ last_find.fetch = "ok"
    /\ ~LastFull
    /\ last_find.time_diff < 2
    /\ last_find.limit_before # initial_block_process_limit

NoDuplicateKeys ==
    /\ Cardinality(EventKeys(ethereum_events)) = Len(ethereum_events)
    /\ Cardinality(Range(ethereum_txs)) = Len(ethereum_txs)

\* C4: no key is stored twice, and a process_elements call that follows a
\* successful call with the same batch leaves both tables as they were (and
\* returns, when the store does not fail)
C4_Idempotence ==
    /\ NoDuplicateKeys
    /\ (last_process.called /\ last_process.repeat) =>
           /\ ~last_process.changed
           /\ last_process.fail = "none" => last_process.outcome = "returned"

\* a batch of two entries was persisted a second time
C4_Witness ==
    /\ last_process.called
    /\ last_process.repeat
    /\ last_process.outcome = "returned"
    /\ Len(last_process.batch) = 2
    /\ Len(ethereum_events) >= 2

C5_HighWaterMarkSafety ==
    last_scan.called =>
        /\ last_scan.fail # "none" =>
               \A a \in last_scan.addresses :
                   erc20_block_number[a] = last_scan.before[a]
        /\ erc20_block_number # last_scan.before =>
               /\ last_scan.outcome = "advanced"
               /\ last_process.outcome = "returned"
               /\ last_process.fail = "none"
        /\ \/ \A a \in last_scan.addresses :
                  erc20_block_number[a] = last_scan.before[a]
           \/ \A a \in last_scan.addresses :
                  erc20_block_number[a] = last_scan.to_block_number
        /\ \A a \in Addresses \ last_scan.addresses :
               erc20_block_number[a] = last_scan.before[a]

\* process_elements failed in an iteration over a batch of two addresses
C5_Witness ==
    /\ last_scan.called
    /\ last_scan.outcome = "process_raised"
    /\ last_scan.fail # "none"
    /\ Cardinality(last_scan.addresses) = 2

\* C13: a fetch error other than HTTPError and ConnectionError propagates to
\* the caller, no adjustment is applied and the window size is unchanged
C13_OtherErrorPropagates ==
    (last_find.called /\ last_find.fetch = "OtherError") =>
        /\ last_find.outcome = "OtherError"
        /\ last_find.log = <<>>
        /\ block_process_limit = last_find.limit_before

\* a full window answered in under 2 s by such an error, the size tuned before
C13_Witness ==
    /\ last_find.called
    /\ last_find.fetch = "OtherError"
    /\ LastFull
    /\ last_find.time_diff < 2
    /\ last_find.limit_before # initial_block_process_limit

\* the place of the first entry of the last batch that carries hash h
FirstSeen(h) ==
    CHOOSE i \in 1..Len(last_process.batch) :
        /\ last_process.batch[i].transactionHash = h
        /\ \A j \in 1..(i - 1) : last_process.batch[j].transactionHash # h

\* C14: the hashes given to the transaction upsert are the distinct
\* transactionHash values of the batch, each once, in order of first appearance
C14_OrderedUniqueHashes ==
    last_process.called =>
        /\ Range(last_process.tx_hashes) =
               {last_process.batch[i].transactionHash :
                    i \in 1..Len(last_process.batch)}
        /\ Cardinality(Range(last_process.tx_hashes))
               = Len(last_process.tx_hashes)
        /\ \A i, j \in 1..Len(last_process.tx_hashes) :
               i < j => FirstSeen(last_process.tx_hashes[i])
                            < FirstSeen(last_process.tx_hashes[j])

\* a batch of two entries of one transaction gave one hash
C14_Witness ==
    /\ last_process.called
    /\ Len(last_process.batch) = 2
    /\ Len(last_process.tx_hashes) = 1

\* C15: every stored event has a stored transaction for its hash, also after
\* calls that failed between the upsert and the insert
C15_ReferentialIntegrity ==
    \A i \in 1..Len(ethereum_events) :
        ethereum_events[i].ethereum_tx_id \in Range(ethereum_txs)

\* a call failed after the upsert: a transaction is stored without any of
\* its events, beside events stored earlier
C15_Witness ==
    /\ last_process.called
    /\ last_process.fail = "insert"
    /\ last_process.outcome = "raised"
    /\ last_process.changed
    /\ ethereum_events # <<>>
    /\ \E h \in Range(ethereum_txs) :
           \A i \in 1..Len(ethereum_events) :
               ethereum_events[i].ethereum_tx_id # h

\* C11: when one entry of a batch cannot be normalized the call does not
\* fail, and every well-formed entry of the batch is stored
C11_MalformedEntryDropped ==
    (/\ last_process.called
     /\ last_process.fail = "none"
     /\ \E i \in 1..Len(last_process.batch) :
            ~WellFormed(last_process.batch[i])) =>
        /\ last_process.outcome = "returned"
        /\ \A i \in 1..Len(last_process.batch) :
               WellFormed(last_process.batch[i]) =>
                   EventKey(from_decoded_event(last_process.batch[i]))
                       \in EventKeys(ethereum_events)

\* C12: a find_relevant_elements call of one thread never changes the window
\* size another thread sees, also when the threads got their indexers from
\* Erc20EventsIndexerProvider
C12_TuningNotShared ==
    last_worker_find.called =>
        \A w \in DOMAIN last_worker_find.seen_before :
            w # last_worker_find.worker =>
                last_worker_find.seen_after[w]
                    = last_worker_find.seen_before[w]

\* C16: between two del_singleton calls every Erc20EventsIndexerProvider()
\* call returns the same indexer and at most one indexer is constructed,
\* however the threads' first calls interleave
C16_Singleton ==
    /\ Cardinality(handed_out) <= 1
    /\ Cardinality(provider_built) <= 1

====
